---- MODULE Spec2Model ----
(***************************************************************************)
(* Model of klavotools/background/competitions.js: the Competitions        *)
(* module (configuration, the _hash table of active competitions, the      *)
(* remaining-time computation, the deferred notifications it arms, the     *)
(* reconciliation on setParams, the two prunes and teardown).              *)
(*                                                                         *)
(* Times: `now` and _timeCorrection are milliseconds, remaining time,      *)
(* delay, displayTime and showDelay are seconds, as in the source.         *)
(***************************************************************************)
EXTENDS Integers, Sequences, FiniteSets, TLC

\* ------------------------------------------------------------------ bounds
MaxId == 2
MaxNowSec == 2
MaxNotifs == 2

\* ------------------------------------------------------- program constants
MsPerSec == 1000
DefaultDelay == 60
DefaultDisplayTime == 0
DefaultRates == {3, 5}

\* --------------------------------------------------------------- universes
Ids == 1..MaxId
Ratings == {3, 5}

\* A JavaScript value passed as beginTime.  "string" is an ISO 8601 string
\* that Date parses to v milliseconds, "badstring" a string Date cannot parse
\* (getTime() is NaN), "number" a unix timestamp of v seconds, "null" is null
\* and "undefined" stands for every other type.
BT(t, v) == [type |-> t, v |-> v]
NullTime == BT("null", 0)
ReportedTimes == {BT("number", 2), NullTime}
ArgTimes ==
    {BT("number", v) : v \in 0..3}
        \cup {BT("string", v) : v \in {0, 400, 1400, 1499, 1500, 2500, 3501}}
        \cup {BT("badstring", 0), NullTime, BT("undefined", 0)}

\* _timeCorrection: null, or a number of milliseconds.
NoCorrection == [set |-> FALSE, ms |-> 0]
Correction(ms) == [set |-> TRUE, ms |-> ms]
CorrectionValues == {0}
CorrectionValuesRT == {0 - 1500, 0 - 600, 0, 500, 700}

VARIABLES rates, delay, displayTime, audio, storage, hash, timeCorrection,
          now, notifs, torn, event
vars == <<rates, delay, displayTime, audio, storage, hash, timeCorrection,
          now, notifs, torn, event>>

\* ------------------------------------------------------------ pure helpers

\* Variant: the seconds truncated instead of rounded.
RoundSecTrunc(x) == x \div MsPerSec
\* Math.round(x / 1000) for x > 0: the nearest integer, halves going up.
RoundSec(x) == (x + (MsPerSec \div 2)) \div MsPerSec

\* Variant: the server time delta is checked before the argument's type.
getRemainingTimeStateFirst(bt, tc, t) ==
    IF ~tc.set THEN [err |-> "Error", val |-> 0]
    ELSE IF bt.type \notin {"string", "badstring", "number"}
    THEN [err |-> "TypeError", val |-> 0]
    ELSE IF bt.type = "badstring" THEN [err |-> "none", val |-> 0]
    ELSE LET beginTimestamp == IF bt.type = "string" THEN bt.v
                               ELSE bt.v * MsPerSec
             remaining == beginTimestamp - (t + tc.ms)
         IN [err |-> "none",
             val |-> IF remaining > 0 THEN RoundSec(remaining) ELSE 0]
\* getRemainingTime(beginTime) with _timeCorrection tc at Date.now() = t:
\* [err, val].  val is meaningful when err is "none".
getRemainingTime(bt, tc, t) ==
    IF bt.type \notin {"string", "badstring", "number"}
    THEN [err |-> "TypeError", val |-> 0]
    ELSE IF ~tc.set THEN [err |-> "Error", val |-> 0]
    ELSE IF bt.type = "badstring" THEN [err |-> "none", val |-> 0]
    ELSE LET beginTimestamp == IF bt.type = "string" THEN bt.v
                               ELSE bt.v * MsPerSec
             remaining == beginTimestamp - (t + tc.ms)
         IN [err |-> "none",
             val |-> IF remaining > 0 THEN RoundSec(remaining) ELSE 0]

\* ------------------------------------------------- deferred notifications

\* A DeferredNotification object after show(showDelay).  st: "scheduled" (the
\* timer is armed), "checking" (the timer fired and before() is waiting for
\* the host's list of tabs), "displayed", "revoked".  wait: the seconds left
\* on the timer.  pending: a kango.browser.tabs.getAll callback of its
\* before() hook is still to be called.  displayTime 0 stands for undefined
\* (the host's default duration).
Notification(id, showDelay, dt) ==
    [id |-> id, st |-> "scheduled", pending |-> FALSE, wait |-> showDelay,
     displayTime |-> dt]

Live(n) == n.st # "revoked"

\* notification.revoke(): idempotent, cancels the timer and any display.
revoke(ns, k) == [ns EXCEPT ![k].st = "revoked", ![k].wait = 0]

\* The configuration the engine works with.
Config(r, d, dt, a) == [rates |-> r, delay |-> d, displayTime |-> dt, audio |-> a]

\* Variant: showDelay is not clamped at 0.
_createNotificationNoClamp(competition, remainingTime, cfg) ==
    LET showDelay == remainingTime - cfg.delay
        dt == IF cfg.displayTime > remainingTime - showDelay
              THEN remainingTime - showDelay ELSE cfg.displayTime
    IN Notification(competition.id, showDelay, IF dt > 0 THEN dt ELSE 0)
\* Variant: displayTime is not clamped to the time left after showDelay.
_createNotificationFullTime(competition, remainingTime, cfg) ==
    LET sd0 == remainingTime - cfg.delay
        showDelay == IF sd0 < 0 THEN 0 ELSE sd0
    IN Notification(competition.id, showDelay,
                    IF cfg.displayTime > 0 THEN cfg.displayTime ELSE 0)
\* _createNotification(competition, remainingTime): the notification it
\* builds and shows.
_createNotification(competition, remainingTime, cfg) ==
    LET sd0 == remainingTime - cfg.delay
        showDelay == IF sd0 < 0 THEN 0 ELSE sd0
        dt == IF cfg.displayTime > remainingTime - showDelay
              THEN remainingTime - showDelay ELSE cfg.displayTime
    IN Notification(competition.id, showDelay, IF dt > 0 THEN dt ELSE 0)

\* Variant: _notify clears the record's reference when it creates nothing.
_notifyClearing(h, ns, id, cfg, tc, t) ==
    LET competition == h[id]
        rt == getRemainingTime(competition.beginTime, tc, t)
    IN IF rt.err # "none" THEN [hash |-> h, notifs |-> ns, err |-> rt.err]
       ELSE IF cfg.delay > 0 /\ rt.val > 0
               /\ competition.ratingValue \in cfg.rates
       THEN [hash |-> [h EXCEPT ![id].notification = Len(ns) + 1],
             notifs |-> Append(ns, _createNotification(competition, rt.val, cfg)),
             err |-> "none"]
       ELSE [hash |-> [h EXCEPT ![id].notification = 0], notifs |-> ns,
             err |-> "none"]
\* Variant: _notify without the test of rates.
_notifyNoFilter(h, ns, id, cfg, tc, t) ==
    LET competition == h[id]
        rt == getRemainingTime(competition.beginTime, tc, t)
    IN IF rt.err # "none" THEN [hash |-> h, notifs |-> ns, err |-> rt.err]
       ELSE IF cfg.delay > 0 /\ rt.val > 0
       THEN [hash |-> [h EXCEPT ![id].notification = Len(ns) + 1],
             notifs |-> Append(ns, _createNotification(competition, rt.val, cfg)),
             err |-> "none"]
       ELSE [hash |-> h, notifs |-> ns, err |-> "none"]
\* Variant: _notify without the test of delay.
_notifyNoDelayCheck(h, ns, id, cfg, tc, t) ==
    LET competition == h[id]
        rt == getRemainingTime(competition.beginTime, tc, t)
    IN IF rt.err # "none" THEN [hash |-> h, notifs |-> ns, err |-> rt.err]
       ELSE IF rt.val > 0 /\ competition.ratingValue \in cfg.rates
       THEN [hash |-> [h EXCEPT ![id].notification = Len(ns) + 1],
             notifs |-> Append(ns, _createNotification(competition, rt.val, cfg)),
             err |-> "none"]
       ELSE [hash |-> h, notifs |-> ns, err |-> "none"]
\* _notify(id) on table h and notifications ns: [hash, notifs, err].
_notify(h, ns, id, cfg, tc, t) ==
    LET competition == h[id]
        rt == getRemainingTime(competition.beginTime, tc, t)
    IN IF rt.err # "none" THEN [hash |-> h, notifs |-> ns, err |-> rt.err]
       ELSE IF cfg.delay > 0 /\ rt.val > 0
               /\ competition.ratingValue \in cfg.rates
       THEN [hash |-> [h EXCEPT ![id].notification = Len(ns) + 1],
             notifs |-> Append(ns, _createNotification(competition, rt.val, cfg)),
             err |-> "none"]
       ELSE [hash |-> h, notifs |-> ns, err |-> "none"]

\* for (var id in this._hash): integer keys are visited in ascending order.
Min(S) == CHOOSE x \in S : \A y \in S : x <= y

\* Variant: the loop body without the revoke() of the owned notification.
UpdateOneNoRevoke(h, ns, id, cfg, tc, t) ==
    IF h[id].beginTime # NullTime THEN _notify(h, ns, id, cfg, tc, t)
    ELSE [hash |-> h, notifs |-> ns, err |-> "none"]
\* The body of the loop of _updateNotifications for one id.
UpdateOne(h, ns, id, cfg, tc, t) ==
    LET competition == h[id]
        ns1 == IF competition.notification # 0
               THEN revoke(ns, competition.notification) ELSE ns
    IN IF competition.beginTime # NullTime THEN _notify(h, ns1, id, cfg, tc, t)
       ELSE [hash |-> h, notifs |-> ns1, err |-> "none"]

\* Variant: the reconciliation drops the records it has nothing to notify for.
_updateNotificationsDropping(h, ns, todo, cfg, tc, t) ==
    [hash |-> [id \in {k \in DOMAIN h : h[k].notification # 0} |-> h[id]],
     notifs |-> ns, err |-> "none"]
\* _updateNotifications() over the ids still to visit; an exception thrown
\* by _notify ends the loop where it is.
RECURSIVE _updateNotifications(_, _, _, _, _, _)
_updateNotifications(h, ns, todo, cfg, tc, t) ==
    IF todo = {} THEN [hash |-> h, notifs |-> ns, err |-> "none"]
    ELSE LET id == Min(todo)
             r == UpdateOne(h, ns, id, cfg, tc, t)
         IN IF r.err # "none" THEN r
            ELSE _updateNotifications(r.hash, r.notifs, todo \ {id}, cfg, tc, t)

\* Variant: the prune also forgets the notification of the records it keeps.
_clearStartedForgetting(h, todo, tc, t) ==
    [hash |-> [id \in {k \in DOMAIN h : h[k].beginTime = NullTime
                                          \/ getRemainingTime(h[k].beginTime, tc, t).val # 0}
                 |-> [h[id] EXCEPT !.notification = 0]],
     err |-> "none"]
\* _clearStarted() over the ids still to visit: [hash, err].
RECURSIVE _clearStarted(_, _, _, _)
_clearStarted(h, todo, tc, t) ==
    IF todo = {} THEN [hash |-> h, err |-> "none"]
    ELSE LET id == Min(todo)
             beginTime == h[id].beginTime
             rt == getRemainingTime(beginTime, tc, t)
         IN IF beginTime = NullTime
            THEN _clearStarted(h, todo \ {id}, tc, t)
            ELSE IF rt.err # "none" THEN [hash |-> h, err |-> rt.err]
            ELSE IF rt.val = 0
            THEN _clearStarted([k \in DOMAIN h \ {id} |-> h[k]], todo \ {id}, tc, t)
            ELSE _clearStarted(h, todo \ {id}, tc, t)

\* Variant: _clearAll that only deletes the records.
_clearAllNoRevoke(h, ns, todo) == ns
\* _clearAll(): the notifications after every owned one was revoked (the
\* table itself ends empty).
RECURSIVE _clearAll(_, _, _)
_clearAll(h, ns, todo) ==
    IF todo = {} THEN ns
    ELSE LET id == Min(todo)
             competition == h[id]
             ns1 == IF competition.notification # 0
                    THEN revoke(ns, competition.notification) ELSE ns
         IN _clearAll(h, ns1, todo \ {id})

\* ------------------------------------------------------------------ state

\* A value of kango.storage or a field of setParams' argument: absent
\* (undefined, or not of the expected type), or the value v.
Absent == [has |-> FALSE, v |-> 0]
AbsentSet == [has |-> FALSE, v |-> {}]
AbsentBool == [has |-> FALSE, v |-> FALSE]
Some(v) == [has |-> TRUE, v |-> v]

EmptyStorage ==
    [rates |-> AbsentSet, delay |-> Absent, displayTime |-> Absent,
     audio |-> AbsentBool]
Saved(cfg) ==
    [rates |-> Some(cfg.rates), delay |-> Some(cfg.delay),
     displayTime |-> Some(cfg.displayTime), audio |-> Some(cfg.audio)]
StoredAtStart == {EmptyStorage}

\* The arguments setParams is called with.
RatesArgs == {AbsentSet, Some({3}), Some({3, 5})}
AudioArgs == {AbsentBool, Some(TRUE), Some(FALSE)}
DisplayTimeArgs == {Absent}
DelayArgs == {Absent, Some(0), Some(1)}
\* One call changes at most one setting; calls that give several fields at
\* once are those of ParamsWide.
Params ==
    {param \in [rates : RatesArgs, audio : AudioArgs,
                displayTime : DisplayTimeArgs, delay : DelayArgs] :
        Cardinality({f \in {"rates", "audio", "displayTime", "delay"} :
                        param[f].has}) <= 1}

\* More arguments, for setParams on its own: any combination of fields, an
\* empty list of rates, and negative numbers.
ParamsWide ==
    [rates : RatesArgs \cup {Some({})}, audio : AudioArgs,
     displayTime : {Absent, Some(0), Some(2), Some(0 - 1)},
     delay : DelayArgs \cup {Some(0 - 1)}]

\* What kango.browser.tabs.getAll hands to its callback: tabs with or without
\* a native tab (_tab), whose URL is http://klavogonki.ru/g/?gmid=<gmid>,
\* followed by more text when tail.
Tabs == [_tab : BOOLEAN, gmid : Ids, tail : BOOLEAN]
TabLists == {{}} \cup {{tab} : tab \in {x \in Tabs : x.gmid = 1}}

\* url.search(/klavogonki.ru\/g\/\?gmid=<id>$/) !== -1
UrlMatches(tab, id) == tab.gmid = id /\ ~tab.tail

Op(name) == [op |-> name]

\* The constructor.
Init ==
    /\ storage \in StoredAtStart
    /\ rates = IF storage.rates.has THEN storage.rates.v ELSE DefaultRates
    /\ delay = IF storage.delay.has THEN storage.delay.v ELSE DefaultDelay
    /\ displayTime = IF storage.displayTime.has THEN storage.displayTime.v
                     ELSE DefaultDisplayTime
    /\ audio = (storage.audio.has /\ storage.audio.v)
    /\ hash = << >>
    /\ timeCorrection = NoCorrection
    /\ now = 0
    /\ notifs = << >>
    /\ torn = FALSE
    /\ event = Op("new")

\* ---------------------------------------------------------------- actions

\* The implementing class sets the server time delta.
SetTimeCorrection(ms) ==
    /\ ~torn
    /\ timeCorrection # Correction(ms)
    /\ timeCorrection' = Correction(ms)
    /\ event' = Op("other")
    /\ UNCHANGED <<rates, delay, displayTime, audio, storage, hash, now,
                   notifs, torn>>

\* The ids in use: those of the records and of the notifications.
UsedIds == DOMAIN hash \cup {notifs[k].id : k \in DOMAIN notifs}

\* The implementing class reports a competition: it stores the record and
\* calls _notify for it.  Competition ids are game ids: each is reported
\* once, the next id being the successor of the last one in use.
Report(id, ratingValue, beginTime) ==
    /\ ~torn
    /\ Len(notifs) < MaxNotifs
    /\ id \notin UsedIds
    /\ \A k \in UsedIds : k < id
    /\ id = 1 \/ id - 1 \in UsedIds
    /\ LET h == [k \in DOMAIN hash \cup {id} |->
                    IF k = id
                    THEN [id |-> id, ratingValue |-> ratingValue,
                          beginTime |-> beginTime, notification |-> 0]
                    ELSE hash[k]]
           r == IF beginTime # NullTime
                THEN _notify(h, notifs, id, Config(rates, delay, displayTime, audio),
                             timeCorrection, now)
                ELSE [hash |-> h, notifs |-> notifs, err |-> "none"]
       IN /\ hash' = r.hash
          /\ notifs' = r.notifs
          /\ event' = [op |-> "report", err |-> r.err]
    /\ UNCHANGED <<rates, delay, displayTime, audio, storage, timeCorrection,
                   now, torn>>

\* Variant: any number replaces delay and displayTime.
mergeParamsAnyNumber(param, cfg) ==
    Config(IF param.rates.has THEN param.rates.v ELSE cfg.rates,
           IF param.delay.has THEN param.delay.v ELSE cfg.delay,
           IF param.displayTime.has THEN param.displayTime.v ELSE cfg.displayTime,
           IF param.audio.has THEN param.audio.v ELSE cfg.audio)
\* The configuration setParams(param) assigns, from the one it finds.
mergeParams(param, cfg) ==
    Config(IF param.rates.has THEN param.rates.v ELSE cfg.rates,
           IF param.delay.has /\ param.delay.v >= 0
           THEN param.delay.v ELSE cfg.delay,
           IF param.displayTime.has /\ param.displayTime.v >= 0
           THEN param.displayTime.v ELSE cfg.displayTime,
           IF param.audio.has THEN param.audio.v ELSE cfg.audio)

\* setParams(param).  call is what the event keeps of the call's argument;
\* cap bounds the notifications there can be after the call.
SetParamsCapped(param, call, cap) ==
    /\ ~torn
    /\ Len(notifs) + Cardinality(DOMAIN hash) <= cap
    /\ LET cfg == mergeParams(param, Config(rates, delay, displayTime, audio))
           u == _updateNotifications(hash, notifs, DOMAIN hash, cfg,
                                     timeCorrection, now)
       IN /\ rates' = cfg.rates
          /\ audio' = cfg.audio
          /\ displayTime' = cfg.displayTime
          /\ delay' = cfg.delay
          /\ storage' = Saved(cfg)
          /\ hash' = u.hash
          /\ notifs' = u.notifs
          /\ event' = [op |-> "setParams", err |-> u.err, hash |-> hash,
                       len |-> Len(notifs), param |-> call]
    /\ UNCHANGED <<timeCorrection, now, torn>>

\* setParams(param) with at most MaxNotifs notifications after it.
SetParamsCall(param, call) == SetParamsCapped(param, call, MaxNotifs)

\* setParams(param), the argument not kept.
SetParams(param) == SetParamsCall(param, Op("param"))

\* setParams(param), the argument kept.
SetParamsWith(param) == SetParamsCall(param, param)

\* getRemainingTime(beginTime), called as the public utility.
GetRemainingTime(beginTime) ==
    /\ ~torn
    /\ LET rt == getRemainingTime(beginTime, timeCorrection, now)
       IN event' = [op |-> "getRemainingTime", beginTime |-> beginTime,
                    err |-> rt.err, val |-> rt.val]
    /\ UNCHANGED <<rates, delay, displayTime, audio, storage, hash,
                   timeCorrection, now, notifs, torn>>

\* _clearStarted(), called by the implementing class.  The event keeps the
\* table the call found when keep.
ClearStartedCall(keep) ==
    /\ ~torn
    /\ hash # << >>
    /\ LET c == _clearStarted(hash, DOMAIN hash, timeCorrection, now)
       IN /\ hash' = c.hash
          /\ event' = [op |-> "_clearStarted", err |-> c.err,
                       hash |-> IF keep THEN hash ELSE << >>]
    /\ UNCHANGED <<rates, delay, displayTime, audio, storage, timeCorrection,
                   now, notifs, torn>>

ClearStarted == ClearStartedCall(FALSE)

ClearStartedKept == ClearStartedCall(TRUE)

\* teardown(): MutableModule's teardown, then _clearAll().
Teardown ==
    /\ ~torn
    /\ torn' = TRUE
    /\ notifs' = _clearAll(hash, notifs, DOMAIN hash)
    /\ hash' = << >>
    /\ event' = [op |-> "teardown",
                 owned |-> {hash[id].notification : id \in DOMAIN hash} \ {0}]
    /\ UNCHANGED <<rates, delay, displayTime, audio, storage, timeCorrection, now>>

\* A second of the clock passes.  A timer that is due fires before the clock
\* shows the next second.
Tick ==
    /\ now < MaxNowSec * MsPerSec
    /\ \A k \in DOMAIN notifs : ~(notifs[k].st = "scheduled" /\ notifs[k].wait = 0)
    /\ now' = now + MsPerSec
    /\ notifs' = [k \in DOMAIN notifs |->
                    IF notifs[k].wait > 0
                    THEN [notifs[k] EXCEPT !.wait = @ - 1] ELSE notifs[k]]
    /\ event' = Op("other")
    /\ UNCHANGED <<rates, delay, displayTime, audio, storage, hash,
                   timeCorrection, torn>>

\* The timer of show(showDelay) fires: before() is called and asks the host
\* for its tabs.
TimerFire(k) ==
    /\ notifs[k].st = "scheduled"
    /\ notifs[k].wait = 0
    /\ notifs' = [notifs EXCEPT ![k].st = "checking", ![k].pending = TRUE]
    /\ event' = Op("other")
    /\ UNCHANGED <<rates, delay, displayTime, audio, storage, hash,
                   timeCorrection, now, torn>>

\* The callback before() gave to kango.browser.tabs.getAll is called: it
\* plays the audio if needed and resolves the promise, upon which a
\* notification that was waiting for it is displayed.
\* Variant: the audio played whatever the tabs.
PlaysAudioWhenOn(found, a) == a
\* !found && this.audio && new Audio(audioUrl).play()
PlaysAudio(found, a) == ~found /\ a
TabsCallback(k, tabs) ==
    /\ notifs[k].pending
    /\ LET found == \E tab \in tabs : tab._tab /\ UrlMatches(tab, notifs[k].id)
           resolved == ~found
       IN /\ notifs' = [notifs EXCEPT
                          ![k].pending = FALSE,
                          ![k].st = IF @ = "checking" THEN "displayed" ELSE @]
          /\ event' = [op |-> "tabsCallback", n |-> k, tabs |-> tabs,
                       played |-> PlaysAudio(found, audio),
                       resolved |-> resolved]
    /\ UNCHANGED <<rates, delay, displayTime, audio, storage, hash,
                   timeCorrection, now, torn>>

\* The user clicks a displayed notification: onclick opens the competition
\* and revokes the notification.
Click(k) ==
    /\ notifs[k].st = "displayed"
    /\ notifs' = revoke(notifs, k)
    /\ event' = Op("other")
    /\ UNCHANGED <<rates, delay, displayTime, audio, storage, hash,
                   timeCorrection, now, torn>>

Next ==
    \/ \E ms \in CorrectionValues : SetTimeCorrection(ms)
    \/ \E id \in Ids, ratingValue \in Ratings, beginTime \in ReportedTimes :
          Report(id, ratingValue, beginTime)
    \/ \E param \in Params : SetParams(param)
    \/ ClearStarted
    \/ Teardown
    \/ Tick
    \/ \E k \in DOMAIN notifs : TimerFire(k)
    \/ \E k \in DOMAIN notifs, tabs \in TabLists : TabsCallback(k, tabs)
    \/ \E k \in DOMAIN notifs : Click(k)

Spec == Init /\ [][Next]_vars

\* The remaining-time computation on its own: the clock, the server time
\* delta and the argument range over more values, next to one reported
\* competition.
NextRT ==
    \/ \E ms \in CorrectionValuesRT : SetTimeCorrection(ms)
    \/ \E beginTime \in ArgTimes : GetRemainingTime(beginTime)
    \/ \E ratingValue \in Ratings, beginTime \in ReportedTimes :
          Report(1, ratingValue, beginTime)
    \/ Tick

SpecRT == Init /\ [][NextRT]_vars

\* setParams on its own, over more arguments, next to one competition
\* reported before the server time delta is set.
NextParams ==
    \/ \E param \in ParamsWide : SetParamsWith(param)
    \/ \E ratingValue \in Ratings : Report(1, ratingValue, BT("number", 2))

SpecParams == Init /\ [][NextParams]_vars

\* The engine fed a record whose beginTime is of no supported type (the
\* TypeError case of getRemainingTime), between well-formed records.
MalformedIds == 1..(MaxId + 1)
MalformedTimes == {BT("number", 2), BT("undefined", 0)}
MalformedCap == MaxNotifs + MaxId + 1
NextMalformed ==
    \/ \E ms \in CorrectionValues : SetTimeCorrection(ms)
    \/ \E id \in MalformedIds, ratingValue \in Ratings,
          beginTime \in MalformedTimes : Report(id, ratingValue, beginTime)
    \/ \E param \in Params : SetParamsCapped(param, Op("param"), MalformedCap)

SpecMalformed == Init /\ [][NextMalformed]_vars

\* _clearStarted over competitions that start a fraction of a second from
\* the clock, or whose beginTime cannot be parsed.
PruneTimes ==
    {BT("string", 400), BT("string", 1400), BT("string", 1500),
     BT("number", 2), BT("badstring", 0), NullTime}
NextPrune ==
    \/ \E ms \in CorrectionValues : SetTimeCorrection(ms)
    \/ \E id \in Ids, ratingValue \in Ratings, beginTime \in PruneTimes :
          Report(id, ratingValue, beginTime)
    \/ ClearStartedKept
    \/ Tick
    \/ \E k \in DOMAIN notifs : TimerFire(k)

SpecPrune == Init /\ [][NextPrune]_vars

\* Competitions armed under several delays and display times.
ShowTimes == {BT("number", 2), BT("number", 3)}
ShowParams ==
    [rates : {AbsentSet}, audio : {AbsentBool},
     displayTime : {Absent, Some(0), Some(1), Some(3)},
     delay : {Absent, Some(1), Some(2)}]
NextShow ==
    \/ \E ms \in CorrectionValues : SetTimeCorrection(ms)
    \/ \E id \in Ids, ratingValue \in Ratings, beginTime \in ShowTimes :
          Report(id, ratingValue, beginTime)
    \/ \E param \in ShowParams : SetParams(param)
    \/ Tick
    \/ \E k \in DOMAIN notifs : TimerFire(k)

SpecShow == Init /\ [][NextShow]_vars

\* ================================================================== claims

\* The notifications of competition id that are not revoked.
LiveOf(id) == {k \in DOMAIN notifs : notifs[k].id = id /\ Live(notifs[k])}

\* The record of id owns a notification that is not revoked.
OwnsLive(h, ns, id) == h[id].notification # 0 /\ Live(ns[h[id].notification])

\* Remaining seconds of the record of id on the current clock (0 when the
\* computation fails).
RemainingOf(id) == getRemainingTime(hash[id].beginTime, timeCorrection, now).val

\* ------------------------------------------------------------------- C1
\* C1: after every setParams call that returns normally, for every event of
\* the table with a non-null beginTime, the notification it owned before the
\* call is revoked, and the event owns a freshly created, non-revoked
\* notification exactly when it is eligible under the new configuration
\* (delay > 0, remaining time > 0, ratingValue in rates).
C1_SetParamsRecomputes ==
    (event.op = "setParams" /\ event.err = "none") =>
        \A id \in DOMAIN event.hash :
            event.hash[id].beginTime # NullTime =>
                LET old == event.hash[id].notification
                    new == hash[id].notification
                IN /\ old # 0 => notifs[old].st = "revoked"
                   /\ (/\ new > event.len
                       /\ notifs[new].id = id
                       /\ Live(notifs[new]))
                      <=> (/\ delay > 0
                           /\ RemainingOf(id) > 0
                           /\ hash[id].ratingValue \in rates)

\* A normal setParams has replaced the notification of an event: the event
\* owns a live one and an earlier one of the same event is revoked.
C1_Witness ==
    /\ event.op = "setParams"
    /\ event.err = "none"
    /\ \E id \in DOMAIN hash :
          /\ OwnsLive(hash, notifs, id)
          /\ notifs[hash[id].notification].st = "scheduled"
          /\ \E k \in DOMAIN notifs :
                k < hash[id].notification /\ notifs[k].id = id
                /\ notifs[k].st = "revoked"

C3_RatesFilter ==
    \A id \in DOMAIN hash :
        OwnsLive(hash, notifs, id) => hash[id].ratingValue \in rates

\* A setParams took the rating of an event that could otherwise be notified
\* out of rates: its notification is revoked and not replaced.
C3_Witness ==
    /\ event.op = "setParams"
    /\ delay > 0
    /\ \E id \in DOMAIN hash :
          /\ hash[id].ratingValue \notin rates
          /\ RemainingOf(id) > 0
          /\ hash[id].notification # 0
          /\ notifs[hash[id].notification].st = "revoked"

\* ------------------------------------------------------------------- C4
\* C4: as long as delay is 0 no event of the table owns a non-revoked
\* notification: the setParams that sets delay to 0 revokes every owned
\* notification and arms no new one, and none is armed until a setParams
\* with a positive delay.
C4_ZeroDelayDisables ==
    delay = 0 => \A id \in DOMAIN hash : ~OwnsLive(hash, notifs, id)

\* delay is 0 and an event that is in rates and has time left owns only a
\* revoked notification.
C4_Witness ==
    /\ event.op = "setParams"
    /\ delay = 0
    /\ \E id \in DOMAIN hash :
          /\ hash[id].ratingValue \in rates
          /\ RemainingOf(id) > 0
          /\ hash[id].notification # 0
          /\ notifs[hash[id].notification].st = "revoked"

\* ------------------------------------------------------------------- C5
\* C5: after teardown() the table is empty and every notification owned by a
\* record of the table at the moment of the call (event.owned) is revoked.
C5_TeardownClears ==
    event.op = "teardown" =>
        /\ hash = << >>
        /\ \A k \in event.owned : notifs[k].st = "revoked"

\* teardown() was called while two records owned a notification each.
C5_Witness ==
    /\ event.op = "teardown"
    /\ Cardinality(event.owned) = 2
    /\ \A k \in event.owned : notifs[k].st = "revoked"
    /\ hash = << >>

\* ------------------------------------------------------------------- C6
\* C6: after teardown() no notification the engine ever created remains
\* non-revoked, those of records deleted earlier by _clearStarted included.
C6_TeardownRevokesAll == torn => \A k \in DOMAIN notifs : ~Live(notifs[k])

\* ------------------------------------------------------------------- C7
\* C7: once a notification is revoked, the callback of its before() hook
\* never plays audio and never surfaces it, also when the host answers the
\* tabs query after the revocation.
C7_RevokedCheckIsSilent ==
    (event.op = "tabsCallback" /\ notifs[event.n].st = "revoked") =>
        ~event.played /\ ~event.resolved

\* ------------------------------------------------------------------- C8
\* The address of competition id is open in one of the tabs.
Viewing(tabs, id) == \E tab \in tabs : tab._tab /\ tab.gmid = id /\ ~tab.tail

\* C8: when the pre-display check completes, audio is played exactly when the
\* audio setting is true at that moment and no open tab's URL matches the
\* event's address, and the check resolves with true exactly when no open tab
\* matches, whatever the audio setting.
C8_AudioRule ==
    event.op = "tabsCallback" =>
        LET viewing == Viewing(event.tabs, notifs[event.n].id)
        IN /\ event.played <=> (audio /\ ~viewing)
           /\ event.resolved <=> ~viewing

\* The check completed with audio on while the competition was being viewed:
\* no audio, resolved false.
C8_Witness ==
    /\ event.op = "tabsCallback"
    /\ audio
    /\ Viewing(event.tabs, notifs[event.n].id)
    /\ ~event.played
    /\ ~event.resolved

\* ------------------------------------------------------------------- C9
\* start - (now + correction) in milliseconds for a beginTime that converts
\* to a timestamp.
DiffMs(bt) ==
    (IF bt.type = "number" THEN bt.v * MsPerSec ELSE bt.v) - (now + timeCorrection.ms)

\* C9: with the clock correction set, getRemainingTime returns the number of
\* milliseconds to the start divided by 1000 and rounded to the nearest
\* integer (halves up) when the start is later than now + correction, and 0
\* otherwise; the result is never negative.
C9_RemainingIsRounded ==
    (event.op = "getRemainingTime" /\ event.err = "none") =>
        /\ event.val >= 0
        /\ IF event.beginTime.type \in {"number", "string"}
              /\ DiffMs(event.beginTime) > 0
           THEN /\ 2 * (event.val * MsPerSec - DiffMs(event.beginTime)) <= MsPerSec
                /\ 2 * (DiffMs(event.beginTime) - event.val * MsPerSec) < MsPerSec
           ELSE event.val = 0

\* A start 1500 ms ahead gives 2 seconds (the half rounds up).
C9_Witness ==
    /\ event.op = "getRemainingTime"
    /\ event.err = "none"
    /\ event.beginTime.type \in {"number", "string"}
    /\ 2 * DiffMs(event.beginTime) = 3 * MsPerSec
    /\ event.val = 2

\* ------------------------------------------------------------------ C10
\* C10: getRemainingTime fails with a TypeError when beginTime is neither a
\* string nor a number, with an Error when the clock correction is not set
\* (the TypeError first when both apply), and in both cases leaves the table,
\* the configuration and the notifications unchanged.
C10_RemainingTimeErrors ==
    [][event'.op = "getRemainingTime" =>
          /\ event'.err = "TypeError" <=>
                event'.beginTime.type \notin {"string", "badstring", "number"}
          /\ event'.err = "Error" <=>
                (/\ event'.beginTime.type \in {"string", "badstring", "number"}
                 /\ ~timeCorrection.set)
          /\ event'.err # "none" =>
                UNCHANGED <<rates, delay, displayTime, audio, storage, hash,
                            timeCorrection, notifs>>]_vars

\* A value of an unsupported type while the correction is not set, with a
\* competition in the table: the TypeError wins.
C10_Witness ==
    /\ event.op = "getRemainingTime"
    /\ event.err = "TypeError"
    /\ ~timeCorrection.set
    /\ hash # << >>

\* ------------------------------------------------------------------ C11
\* C11: setParams merges a partial configuration: delay and displayTime are
\* replaced only by a number >= 0 and otherwise keep their value, rates and
\* audio keep theirs when absent from the argument; delay and displayTime
\* stay non-negative; and after the call the four persisted settings equal
\* the configuration in memory.
C11_SetParamsMerges ==
    [][event'.op = "setParams" =>
          LET param == event'.param
          IN /\ delay' = IF param.delay.has /\ param.delay.v >= 0
                         THEN param.delay.v ELSE delay
             /\ displayTime' = IF param.displayTime.has /\ param.displayTime.v >= 0
                               THEN param.displayTime.v ELSE displayTime
             /\ ~param.rates.has => rates' = rates
             /\ ~param.audio.has => audio' = audio
             /\ (delay >= 0 /\ displayTime >= 0) =>
                    (delay' >= 0 /\ displayTime' >= 0)
             /\ storage'.delay = Some(delay')
             /\ storage'.rates = Some(rates')
             /\ storage'.displayTime = Some(displayTime')
             /\ storage'.audio = Some(audio')]_vars

\* A call with a negative delay and no rates, after earlier calls set delay
\* to 1 and rates to {3}: both keep their value, and the call, which failed
\* in the reconciliation, still persisted them.
C11_Witness ==
    /\ event.op = "setParams"
    /\ event.err = "Error"
    /\ event.param.delay = Some(0 - 1)
    /\ ~event.param.rates.has
    /\ delay = 1
    /\ rates = {3}
    /\ storage.delay = Some(1)
    /\ storage.rates = Some({3})

\* C12: a setParams call never ends, normally or by an error of
\* getRemainingTime, with some events already revoked or re-armed and others
\* not processed: no event is touched by the call while another still owns
\* the live notification it owned before.
C12_ReconciliationAtomic ==
    [][event'.op = "setParams" =>
          LET Owned(id) == hash[id].notification
              Touched(id) ==
                  \/ hash'[id].notification # Owned(id)
                  \/ /\ Owned(id) # 0
                     /\ Live(notifs[Owned(id)])
                     /\ ~Live(notifs'[Owned(id)])
              NotProcessed(id) ==
                  /\ Owned(id) # 0
                  /\ hash'[id].notification = Owned(id)
                  /\ Live(notifs'[Owned(id)])
          IN ~\E a, b \in DOMAIN hash : Touched(a) /\ NotProcessed(b)]_vars

\* C13: a record references a notification only while that notification is
\* scheduled or displayed: no record of the table references a revoked one.
C13_NoRevokedReference ==
    \A id \in DOMAIN hash :
        hash[id].notification # 0 => Live(notifs[hash[id].notification])

\* ------------------------------------------------------------------ C14
\* beginTime is null, or a start at least half a second after now +
\* correction: its remaining time does not round to 0.
StaysAfterPrune(bt) ==
    \/ bt = NullTime
    \/ bt.type \in {"number", "string"} /\ 2 * DiffMs(bt) >= MsPerSec

\* C14 as stated: with the clock correction set, _clearStarted keeps every
\* event whose beginTime is null or whose start is later than now +
\* correction by any positive number of milliseconds, and removes every
\* event whose start is at or before now + correction.
C14_PruneExact ==
    [][(event'.op = "_clearStarted" /\ timeCorrection.set) =>
          \A id \in DOMAIN hash :
              LET bt == hash[id].beginTime
              IN /\ (bt = NullTime
                        \/ (bt.type \in {"number", "string"} /\ DiffMs(bt) > 0))
                    => id \in DOMAIN hash'
                 /\ (bt.type \in {"number", "string"} /\ DiffMs(bt) <= 0)
                    => id \notin DOMAIN hash']_vars

\* C14, amended: with the clock correction set, _clearStarted removes
\* exactly the events with a non-null beginTime whose remaining time rounds
\* to 0 seconds, that is whose start is less than half a second after now +
\* correction or cannot be parsed; with the correction unset and a non-null
\* beginTime in the table it throws and removes nothing.
C14_PruneRounded ==
    [][event'.op = "_clearStarted" =>
          IF ~timeCorrection.set
                /\ \E id \in DOMAIN hash : hash[id].beginTime # NullTime
          THEN event'.err = "Error" /\ hash' = hash
          ELSE /\ event'.err = "none"
               /\ DOMAIN hash' =
                     {id \in DOMAIN hash : StaysAfterPrune(hash[id].beginTime)}]_vars

\* A prune removed a competition that starts 400 ms later and kept another.
C14_Witness ==
    /\ event.op = "_clearStarted"
    /\ event.err = "none"
    /\ \E id \in DOMAIN event.hash \ DOMAIN hash :
          /\ event.hash[id].beginTime.type = "string"
          /\ DiffMs(event.hash[id].beginTime) = 400
    /\ \E id \in DOMAIN hash : hash[id].beginTime # NullTime

\* ------------------------------------------------------------------ C15
\* C15: whenever a record leaves the table, by teardown's full clear or by
\* _clearStarted, the notification it owns is revoked by that step.
C15_RevokedBeforeDeleted ==
    [][\A id \in DOMAIN hash \ DOMAIN hash' :
          hash[id].notification # 0 =>
              ~Live(notifs'[hash[id].notification])]_vars

\* ------------------------------------------------------------------ C16
\* C16: _clearStarted only deletes records: it leaves every notification as
\* it is (none revoked, none created), the configuration and its stored copy
\* unchanged, and every record it keeps unchanged.
C16_PruneOnlyDeletes ==
    [][event'.op = "_clearStarted" =>
          /\ notifs' = notifs
          /\ UNCHANGED <<rates, delay, displayTime, audio, storage, timeCorrection>>
          /\ DOMAIN hash' \subseteq DOMAIN hash
          /\ \A id \in DOMAIN hash' : hash'[id] = hash[id]]_vars

\* A prune deleted a record whose notification is live and kept another
\* record that owns a live notification.
C16_Witness ==
    /\ event.op = "_clearStarted"
    /\ \E id \in DOMAIN event.hash \ DOMAIN hash : OwnsLive(event.hash, notifs, id)
    /\ \E id \in DOMAIN hash : hash[id] = event.hash[id] /\ OwnsLive(hash, notifs, id)

\* ------------------------------------------------------------------ C17
\* delay > 0, remaining time > 0 and ratingValue in rates.
Eligible(id) ==
    delay > 0 /\ RemainingOf(id) > 0 /\ hash[id].ratingValue \in rates

\* The competition reported last.
LastId == CHOOSE id \in DOMAIN hash : \A k \in DOMAIN hash : k <= id

\* C17: _notify(id) creates and stores a notification exactly when delay > 0,
\* the remaining time is > 0 and ratingValue is in rates, and otherwise
\* creates nothing and leaves the record's reference as it was.  For the
\* _notify of a report: the new record references the one notification of
\* its id when eligible, and no notification of its id exists otherwise.
\* For the _notify calls of a setParams that returns normally: each eligible
\* record references a notification created by the call, every other record
\* keeps the reference it had, and the call created one notification per
\* eligible record.
C17_NotifyIff ==
    /\ (event.op = "report" /\ event.err = "none"
           /\ hash[LastId].beginTime # NullTime) =>
          LET mine == {k \in DOMAIN notifs : notifs[k].id = LastId}
          IN IF Eligible(LastId)
             THEN mine = {hash[LastId].notification}
             ELSE mine = {} /\ hash[LastId].notification = 0
    /\ (event.op = "setParams" /\ event.err = "none") =>
          LET notified == {id \in DOMAIN hash : hash[id].beginTime # NullTime}
          IN /\ \A id \in notified :
                    IF Eligible(id)
                    THEN /\ hash[id].notification > event.len
                         /\ notifs[hash[id].notification].id = id
                    ELSE hash[id].notification = event.hash[id].notification
             /\ Len(notifs) =
                   event.len + Cardinality({id \in notified : Eligible(id)})

\* A setParams met an event in rates, with a positive delay, whose remaining
\* time is 0: nothing was created and the record still references the
\* notification it had.
C17_Witness ==
    /\ event.op = "setParams"
    /\ event.err = "none"
    /\ Len(notifs) = event.len
    /\ \E id \in DOMAIN hash :
          /\ hash[id].beginTime # NullTime
          /\ delay > 0
          /\ hash[id].ratingValue \in rates
          /\ RemainingOf(id) = 0
          /\ hash[id].notification # 0
          /\ hash[id].notification = event.hash[id].notification

\* ------------------------------------------------------------------ C18
\* The records whose notification the last step created: the record of a
\* report, the records a setParams has armed.
Fresh ==
    IF event.op = "report" /\ event.err = "none"
    THEN {id \in {LastId} : hash[id].notification # 0}
    ELSE IF event.op = "setParams"
    THEN {id \in DOMAIN hash : hash[id].notification > event.len}
    ELSE {}

\* wait is the showDelay the notification was shown with: no second has
\* passed since.
ShowDelayOf(id) == notifs[hash[id].notification].wait

\* C18: the showDelay of every notification _notify arms is
\* max(0, remainingTime - delay), lies between 0 and remainingTime, and
\* leaves min(remainingTime, delay) seconds before the start.
C18_ShowDelay ==
    \A id \in Fresh :
        LET r == RemainingOf(id)
            sd == ShowDelayOf(id)
        IN /\ sd = IF r - delay > 0 THEN r - delay ELSE 0
           /\ 0 <= sd /\ sd <= r
           /\ r - sd = IF r < delay THEN r ELSE delay

\* A competition 3 seconds ahead armed with delay 2: shown after 1 second.
C18_Witness ==
    \E id \in Fresh :
        RemainingOf(id) = 3 /\ delay = 2 /\ ShowDelayOf(id) = 1

\* ------------------------------------------------------------------ C19
\* The explicit display duration of the record's notification; 0 when none
\* was passed (the host's default).
DurationOf(id) == notifs[hash[id].notification].displayTime

\* C19: the duration of every notification _notify arms is
\* min(displayTime, remainingTime - showDelay); it is passed explicitly only
\* when positive, and then duration + showDelay <= remainingTime.
C19_DisplayDuration ==
    \A id \in Fresh :
        LET r == RemainingOf(id)
            sd == ShowDelayOf(id)
            d == IF displayTime > r - sd THEN r - sd ELSE displayTime
        IN /\ DurationOf(id) = IF d > 0 THEN d ELSE 0
           /\ DurationOf(id) > 0 => DurationOf(id) + sd <= r

\* displayTime 3 cut to the 2 seconds left after a showDelay of 1.
C19_Witness ==
    \E id \in Fresh :
        /\ displayTime = 3
        /\ RemainingOf(id) = 3
        /\ ShowDelayOf(id) = 1
        /\ DurationOf(id) = 2

\* ------------------------------------------------------------------ C20
\* C20: setParams adds no record to the table and removes none, and changes
\* no record's id, ratingValue or beginTime, whether it returns or throws.
C20_SetParamsKeepsRecords ==
    event.op = "setParams" =>
        /\ DOMAIN hash = DOMAIN event.hash
        /\ \A id \in DOMAIN hash :
              /\ hash[id].id = event.hash[id].id
              /\ hash[id].ratingValue = event.hash[id].ratingValue
              /\ hash[id].beginTime = event.hash[id].beginTime

\* A setParams over three records re-armed one of them and then threw.
C20_Witness ==
    /\ event.op = "setParams"
    /\ event.err = "TypeError"
    /\ Cardinality(DOMAIN hash) = 3
    /\ \E id \in DOMAIN hash :
          /\ hash[id].notification > event.len
          /\ event.hash[id].notification # 0

====
